---- MODULE Spec2Model ----
(***************************************************************************)
(* Model of app.py (Global Recession Meter): the country selection, the    *)
(* download/alignment loop, calculate_risk_advanced and the display loop.  *)
(*                                                                         *)
(* Numbers are exact rationals <<n, d>> with d > 0 in lowest terms; the    *)
(* floating point infinities are <<1, 0>> and <<-1, 0>>; a missing cell    *)
(* (NaN) is the empty tuple <<>>.  Dates are day numbers.                  *)
(***************************************************************************)
EXTENDS Integers, Sequences, FiniteSets, TLC

(***************************************************************************)
(* Bounds of the data the remote source may return.                        *)
(***************************************************************************)
\* Calendar window of the source: observations are dated 1..MaxDay.
MaxDay == 3

\* Observation values the source may return: in one run, every series takes
\* its values from one of these sets.
ObsValueSets == {{<<0, 1>>, <<10, 1>>}, {<<10, 1>>, <<11, 1>>}}

\* Indicators for which the source holds a series; every other fetch raises.
Served == {"Real GDP", "10-Year Rate", "3-Month Rate"}

(***************************************************************************)
(* Configuration tables (app.py lines 25-99).                              *)
(***************************************************************************)
\* codes["USA"]: (name, FRED code) in dict insertion order.
CodesUSA ==
  << <<"Real GDP", "GDPC1">>,
     <<"Unemployment", "UNRATE">>,
     <<"CPI", "CPIAUCSL">>,
     <<"Industrial Production", "INDPRO">>,
     <<"Retail Sales", "RSAFS">>,
     <<"10-Year Rate", "GS10">>,
     <<"3-Month Rate", "TB3MS">>,
     <<"Consumer Confidence", "UMCSENT">>,
     <<"Nonfarm Payrolls", "PAYEMS">>,
     <<"Building Permits", "PERMIT">>,
     <<"S&P 500", "SP500">>,
     <<"WTI Oil", "DCOILWTICO">>,
     <<"30Y Fixed Mortgage", "MORTGAGE30US">>,
     <<"Mortgage Delinquencies", "QBPAMISM">>,
     <<"Personal Consumption Expenditure", "PCE">>,
     <<"Personal Income", "PI">>,
     <<"Durable Goods Orders", "DGORDER">>,
     <<"ISM Manufacturing", "NAPM">>,
     <<"ISM Services", "SERVPMI">>,
     <<"M2 Money Supply", "M2SL">>,
     <<"Corporate Profits", "CP">> >>

\* codes: country -> (name, code) pairs in iteration order.
codes == [country \in {"USA"} |-> CodesUSA]

\* The keys of codes[country], in iteration order.
IndicatorNames(country) ==
  [k \in 1..Len(codes[country]) |-> codes[country][k][1]]

YieldCurve == "Yield Curve (10y-3m)"
AnnualInflation == "Annual Inflation (%)"
RiskCol == "Risk (%)"

WeightTable ==
  << <<YieldCurve, 35>>,
     <<"Real GDP", 30>>,
     <<"Unemployment", 30>>,
     <<"CPI", 25>>,
     <<"Industrial Production", 15>>,
     <<"Retail Sales", 15>>,
     <<"10-Year Rate", 5>>,
     <<"3-Month Rate", 5>>,
     <<"Consumer Confidence", 10>>,
     <<"Nonfarm Payrolls", 15>>,
     <<"Building Permits", 5>>,
     <<"S&P 500", 10>>,
     <<"WTI Oil", 5>>,
     <<"30Y Fixed Mortgage", 5>>,
     <<"Mortgage Delinquencies", 10>>,
     <<"Personal Consumption Expenditure", 10>>,
     <<"Personal Income", 10>>,
     <<"Durable Goods Orders", 10>>,
     <<"ISM Manufacturing", 15>>,
     <<"ISM Services", 15>>,
     <<"M2 Money Supply", 5>>,
     <<"Corporate Profits", 15>> >>

DirectionTable ==
  << <<YieldCurve, FALSE>>,
     <<"Real GDP", FALSE>>,
     <<"Unemployment", TRUE>>,
     <<"CPI", TRUE>>,
     <<"Industrial Production", FALSE>>,
     <<"Retail Sales", FALSE>>,
     <<"10-Year Rate", TRUE>>,
     <<"3-Month Rate", TRUE>>,
     <<"Consumer Confidence", FALSE>>,
     <<"Nonfarm Payrolls", FALSE>>,
     <<"Building Permits", FALSE>>,
     <<"S&P 500", FALSE>>,
     <<"WTI Oil", FALSE>>,
     <<"30Y Fixed Mortgage", TRUE>>,
     <<"Mortgage Delinquencies", TRUE>>,
     <<"Personal Consumption Expenditure", FALSE>>,
     <<"Personal Income", FALSE>>,
     <<"Durable Goods Orders", FALSE>>,
     <<"ISM Manufacturing", FALSE>>,
     <<"ISM Services", FALSE>>,
     <<"M2 Money Supply", FALSE>>,
     <<"Corporate Profits", FALSE>> >>

\* The value a (key, value) table holds for key.
Lookup(table, key) ==
  table[CHOOSE k \in 1..Len(table) : table[k][1] = key][2]

weights ==
  [name \in {WeightTable[k][1] : k \in 1..Len(WeightTable)} |->
     Lookup(WeightTable, name)]

risk_direction ==
  [name \in {DirectionTable[k][1] : k \in 1..Len(DirectionTable)} |->
     Lookup(DirectionTable, name)]

(***************************************************************************)
(* Exact arithmetic standing for the program's floats.                     *)
(***************************************************************************)
Abs(n) == IF n < 0 THEN -n ELSE n

RECURSIVE Gcd(_, _)
Gcd(a, b) == IF b = 0 THEN a ELSE Gcd(b, a % b)

\* n/d in lowest terms with a positive denominator (d # 0).
Rat(n, d) ==
  LET g == Gcd(Abs(n), Abs(d))
      s == IF d < 0 THEN -1 ELSE 1
  IN  <<s * (n \div g), s * (d \div g)>>

Zero == <<0, 1>>
PosInf == <<1, 0>>
NegInf == <<-1, 0>>
Missing == <<>>

IsMissing(x) == x = Missing
IsFinite(x) == x # Missing /\ x[2] # 0

RAdd(a, b) == Rat(a[1] * b[2] + b[1] * a[2], a[2] * b[2])
RSub(a, b) == Rat(a[1] * b[2] - b[1] * a[2], a[2] * b[2])
RMul(a, b) == Rat(a[1] * b[1], a[2] * b[2])
RInt(n) == <<n, 1>>

\* a < b, also when one of them is an infinity.
RLess(a, b) == a[1] * b[2] < b[1] * a[2]
RLeq(a, b) == a[1] * b[2] <= b[1] * a[2]

RMin(a, b) == IF RLess(b, a) THEN b ELSE a
RMax(a, b) == IF RLess(a, b) THEN b ELSE a

\* -x (line 151), infinities included.
RNeg(x) == <<-x[1], x[2]>>

Sign(n) == IF n > 0 THEN 1 ELSE IF n < 0 THEN -1 ELSE 0

\* Float division a / b of non-NaN a by non-NaN b: x/0 is an infinity of the
\* sign of x, 0/0 and inf/inf are NaN, x/inf is 0.
FDiv(a, b) ==
  IF b[2] = 0
    THEN IF a[2] = 0 THEN Missing ELSE Zero
  ELSE IF a[2] = 0
    THEN <<a[1] * (IF b[1] < 0 THEN -1 ELSE 1), 0>>
  ELSE IF b[1] = 0
    THEN IF a[1] = 0 THEN Missing ELSE <<Sign(a[1]), 0>>
  ELSE Rat(a[1] * b[2], a[2] * b[1])

\* Float subtraction x - c of a finite c from a possibly infinite or NaN x.
FSubFinite(x, c) ==
  IF IsMissing(x) THEN Missing
  ELSE IF x[2] = 0 THEN x
  ELSE RSub(x, c)

\* Float difference a - b of two finite or NaN cells.
FSub(a, b) ==
  IF IsMissing(a) \/ IsMissing(b) THEN Missing ELSE RSub(a, b)

\* Float product of x by a finite positive c.
FMulPos(x, c) ==
  IF IsMissing(x) THEN Missing
  ELSE IF x[2] = 0 THEN x
  ELSE RMul(x, c)

(***************************************************************************)
(* Sequence helpers.                                                       *)
(***************************************************************************)
Range(s) == {s[k] : k \in 1..Len(s)}

Contains(s, x) == \E k \in 1..Len(s) : s[k] = x

PosOf(s, x) == CHOOSE k \in 1..Len(s) : s[k] = x

Last(s) == s[Len(s)]

SetMin(S) == CHOOSE x \in S : \A y \in S : x <= y
SetMax(S) == CHOOSE x \in S : \A y \in S : y <= x

\* The integers of S in ascending order.
RECURSIVE SortedSeq(_)
SortedSeq(S) ==
  IF S = {} THEN <<>> ELSE <<SetMin(S)>> \o SortedSeq(S \ {SetMin(S)})

(***************************************************************************)
(* Raw series: what fred.get_series returns, a date-sorted sequence of     *)
(* <<day, value>> observations (possibly none).  A series of the model is  *)
(* given by its first and its last observation.                            *)
(***************************************************************************)
Days == 1..MaxDay

NoObservation == {<<>>}

OneObservation(values) == {<< <<d, v>> >> : d \in Days, v \in values}

TwoObservations(values) ==
  {<< <<p[1], v>>, <<p[2], w>> >> :
     p \in {q \in Days \X Days : q[1] < q[2]}, v \in values, w \in values}

RawSeries(values) ==
  NoObservation \cup OneObservation(values) \cup TwoObservations(values)

\* fred.get_series raised (line 124).
Raised == [ok |-> FALSE, serie |-> <<>>]

\* Outcome of one fred.get_series(code) call: a series, or an exception.
FetchOutcomes(values) ==
  {Raised} \cup {[ok |-> TRUE, serie |-> s] : s \in RawSeries(values)}

\* The positions in codes[country] of the indicators the source serves.
ServedAt(country) ==
  {k \in 1..Len(codes[country]) : codes[country][k][1] \in Served}

\* What the source answers for every indicator of a country in one run,
\* given its answers for the indicators it serves.
SourceAnswers(country, served) ==
  [k \in 1..Len(codes[country]) |->
     IF k \in ServedAt(country) THEN served[k] ELSE Raised]

SeriesDates(serie) == {serie[k][1] : k \in 1..Len(serie)}

\* serie[d], or NaN when the series has no observation dated d.
SeriesAt(serie, d) ==
  IF d \in SeriesDates(serie)
    THEN serie[CHOOSE k \in 1..Len(serie) : serie[k][1] = d][2]
    ELSE Missing

(***************************************************************************)
(* Data frames: index (dates), columns (names, in insertion order) and     *)
(* data[j][k], the cell of column j at row k.                              *)
(***************************************************************************)
\* pd.DataFrame() (line 118).
EmptyFrame == [index |-> <<>>, columns |-> <<>>, data |-> <<>>]

HasColumn(df, name) == Contains(df.columns, name)

Column(df, name) == df.data[PosOf(df.columns, name)]

\* df.empty: no rows or no columns (line 127).
IsEmpty(df) == Len(df.index) = 0 \/ Len(df.columns) = 0

\* df[name] = cells, for cells already aligned with df.index.
SetColumn(df, name, cells) ==
  IF HasColumn(df, name)
    THEN [df EXCEPT !.data[PosOf(df.columns, name)] = cells]
    ELSE [df EXCEPT !.columns = Append(@, name), !.data = Append(@, cells)]

\* df.reindex(idx): the rows of df at the dates of idx, NaN rows for the
\* dates df does not have.
Reindex(df, idx) ==
  [index |-> idx,
   columns |-> df.columns,
   data |-> [j \in 1..Len(df.columns) |->
               [k \in 1..Len(idx) |->
                  IF Contains(df.index, idx[k])
                    THEN df.data[j][PosOf(df.index, idx[k])]
                    ELSE Missing]]]

\* df[name] = serie.reindex(df.index).
SetAligned(df, name, serie) ==
  SetColumn(df, name, [k \in 1..Len(df.index) |-> SeriesAt(serie, df.index[k])])

\* df[name] = serie (line 123): a frame without rows takes the index of a
\* non-empty series; otherwise the series is reindexed onto the frame's index
\* and its observations on other dates are not kept.
SetItemSeries(df, name, serie) ==
  IF Len(df.index) = 0 /\ Len(serie) > 0
    THEN SetAligned(Reindex(df, [k \in 1..Len(serie) |-> serie[k][1]]), name, serie)
    ELSE SetAligned(df, name, serie)

\* pd.date_range(lo, hi, freq='D').
DayRange(lo, hi) == [k \in 1..(hi - lo + 1) |-> lo + k - 1]

\* df.asfreq('D') (line 128): one row per calendar day from the first to the
\* last date of the index, NaN on the days the index did not have.
AsFreqD(df) ==
  Reindex(df, DayRange(SetMin(Range(df.index)), SetMax(Range(df.index))))

\* Variant of Linear that repeats the cell on the left.
LinearFromLeft(col, i, j, k) == col[i]

\* The value at position k on the line through the cells at positions i < k < j.
Linear(col, i, j, k) ==
  RAdd(col[i], RMul(RSub(col[j], col[i]), Rat(k - i, j - i)))

\* The interpolated value of the NaN cell k, given the positions of the valid
\* cells before and after it.
InterpolateCell(col, k, before, after) ==
  IF before = {} THEN Missing
  ELSE IF after = {} THEN col[SetMax(before)]
  ELSE Linear(col, SetMax(before), SetMin(after), k)

\* Series.interpolate(method='linear') with pandas' defaults (forward
\* direction, no limit area) on equally spaced rows: a NaN between two valid
\* cells is interpolated by position, a NaN after the last valid cell takes
\* that cell's value, a NaN before the first valid cell stays.
InterpolateColumn(col) ==
  [k \in 1..Len(col) |->
     IF ~IsMissing(col[k]) THEN col[k]
     ELSE InterpolateCell(col, k,
            {j \in 1..(k - 1) : ~IsMissing(col[j])},
            {j \in (k + 1)..Len(col) : ~IsMissing(col[j])})]

\* df.interpolate(method='linear') (line 128).
Interpolate(df) ==
  [df EXCEPT !.data = [j \in 1..Len(df.columns) |-> InterpolateColumn(df.data[j])]]

\* Series.pct_change(periods): cell / cell `periods` rows earlier - 1.
PctChangeCell(col, periods, k) ==
  IF k <= periods \/ IsMissing(col[k]) \/ IsMissing(col[k - periods])
    THEN Missing
    ELSE FSubFinite(FDiv(col[k], col[k - periods]), RInt(1))

PctChangeColumn(col, periods) ==
  [k \in 1..Len(col) |-> PctChangeCell(col, periods, k)]

\* Rows of a year in the daily frame (line 130).
YearLag == 365

\* Lines 129-130: the annual inflation column, when CPI was fetched.
AddAnnualInflation(df) ==
  IF HasColumn(df, "CPI")
    THEN SetColumn(df, AnnualInflation,
           [k \in 1..Len(df.index) |->
              FMulPos(PctChangeCell(Column(df, "CPI"), YearLag, k), RInt(100))])
    ELSE df

\* Lines 131-132: the spread column, when both rates were fetched.
AddYieldCurve(df) ==
  IF HasColumn(df, "10-Year Rate") /\ HasColumn(df, "3-Month Rate")
    THEN SetColumn(df, YieldCurve,
           [k \in 1..Len(df.index) |->
              FSub(Column(df, "10-Year Rate")[k], Column(df, "3-Month Rate")[k])])
    ELSE df

\* df.sort_index(inplace=True) (line 133): rows in ascending date order.
SortIndex(df) == Reindex(df, SortedSeq(Range(df.index)))

\* Lines 127-134: the frame stored for a country whose frame is not empty.
AlignFrame(df) ==
  SortIndex(AddYieldCurve(AddAnnualInflation(Interpolate(AsFreqD(df)))))

\* Variant of FetchStep that drops a failing indicator without a warning.
FetchStepSilent(st, country, k, outcome) ==
  IF outcome.ok
    THEN [st EXCEPT !.df = SetItemSeries(@, codes[country][k][1], outcome.serie),
                    !.calls = Append(@, codes[country][k][2])]
    ELSE [st EXCEPT !.calls = Append(@, codes[country][k][2])]

\* Lines 119-125, one iteration: the state of the download after the fetch
\* of indicator k of the country answered `outcome`.
FetchStep(st, country, k, outcome) ==
  IF outcome.ok
    THEN [st EXCEPT !.df = SetItemSeries(@, codes[country][k][1], outcome.serie),
                    !.calls = Append(@, codes[country][k][2])]
    ELSE [st EXCEPT !.warnings = Append(@, <<codes[country][k][1],
                                             codes[country][k][2], country>>),
                    !.calls = Append(@, codes[country][k][2])]

\* Lines 119-125: the loop over the first k indicators of the country.
RECURSIVE FetchLoop(_, _, _, _)
FetchLoop(st, country, answers, k) ==
  IF k = 0 THEN st
  ELSE FetchStep(FetchLoop(st, country, answers, k - 1), country, k, answers[k])

\* Lines 127-134 after the fetch loop: a frame that is not empty is aligned
\* and stored in all_data (`stored`).
StoreFrame(st) ==
  IF ~IsEmpty(st.df)
    THEN [stored |-> TRUE, df |-> AlignFrame(st.df),
          warnings |-> st.warnings, calls |-> st.calls]
    ELSE [stored |-> FALSE, df |-> st.df,
          warnings |-> st.warnings, calls |-> st.calls]

\* Lines 117-134 for one country.
Download(country, answers) ==
  StoreFrame(FetchLoop([df |-> EmptyFrame, warnings |-> <<>>, calls |-> <<>>],
                       country, answers, Len(codes[country])))

(***************************************************************************)
(* calculate_risk_advanced (lines 139-158).                                *)
(***************************************************************************)
\* The fill of a NaN cell, given the positions of the valid cells before it.
FFillCell(col, before) ==
  IF before = {} THEN Missing ELSE col[SetMax(before)]

\* Series.ffill(): a NaN takes the last valid value before it.
FFillColumn(col) ==
  [k \in 1..Len(col) |->
     IF ~IsMissing(col[k]) THEN col[k]
     ELSE FFillCell(col, {j \in 1..(k - 1) : ~IsMissing(col[j])})]

\* df.ffill() (line 140).
FFill(df) ==
  [df EXCEPT !.data = [j \in 1..Len(df.columns) |-> FFillColumn(df.data[j])]]

\* .fillna(0) (line 142): NaN becomes 0, an infinity stays.
FillNa0(x) == IF IsMissing(x) THEN Zero ELSE x

\* pct_change.loc[date, var] (lines 142, 149) at row k.
PctChangeAt(df, var, k) ==
  FillNa0(PctChangeCell(Column(df, var), 1, k))

\* Variant of SignedChange that never negates.
SignedChangeNoFlip(var, change) == change

\* Variant of SignedChange that negates for the other direction flag.
SignedChangeSwapped(var, change) ==
  IF risk_direction[var] THEN RNeg(change) ELSE change

\* Lines 150-151: the sign normalisation.
SignedChange(var, change) ==
  IF ~risk_direction[var] THEN RNeg(change) ELSE change

ClipLow == <<-1, 5>>
ClipHigh == <<1, 5>>

\* np.clip(change, -0.2, 0.2) (line 152).
Clip(change) ==
  IF RLess(change, ClipLow) THEN ClipLow
  ELSE IF RLess(ClipHigh, change) THEN ClipHigh
  ELSE change

\* Lines 146-153: the inner loop over the first n keys of codes["USA"] at
\* row k; `value` is the accumulator, `terms` the locals of each iteration
\* that was not skipped.
\* Lines 149-152 for one indicator: the percent change read, its signed
\* value and the clipped `change`.
Term(var, pct) ==
  [var |-> var, pct |-> pct,
   signed |-> SignedChange(var, pct),
   change |-> Clip(SignedChange(var, pct))]

\* Line 153: value += change * weights[var].
AddTerm(acc, term) ==
  [value |-> RAdd(acc.value, RMul(term.change, RInt(weights[term.var]))),
   terms |-> Append(acc.terms, term)]

\* Lines 147-153: one iteration of the inner loop.
AccumulateVar(acc, df, k, var) ==
  IF ~HasColumn(df, var) THEN acc
  ELSE AddTerm(acc, Term(var, PctChangeAt(df, var, k)))

RECURSIVE Accumulate(_, _, _)
Accumulate(df, k, n) ==
  IF n = 0 THEN [value |-> Zero, terms |-> <<>>]
  ELSE AccumulateVar(Accumulate(df, k, n - 1), df, k, codes["USA"][n][1])

\* Variant of Inverted that also holds for a spread of zero.
InvertedOrFlat(df, k) ==
  /\ HasColumn(df, YieldCurve)
  /\ ~IsMissing(Column(df, YieldCurve)[k])
  /\ RLeq(Column(df, YieldCurve)[k], Zero)

\* Line 154: the spread column is present and negative at row k.
Inverted(df, k) ==
  /\ HasColumn(df, YieldCurve)
  /\ ~IsMissing(Column(df, YieldCurve)[k])
  /\ RLess(Column(df, YieldCurve)[k], Zero)

\* Lines 154-155: the accumulator after the inversion test.
AddBonus(df, k, value) ==
  IF Inverted(df, k)
    THEN RAdd(value, RMul(RInt(weights[YieldCurve]), <<1, 2>>))
    ELSE value

\* Variant of Clamp without the floor at 0.
ClampNoFloor(value) == RMin(RInt(100), value)

\* max(0, min(100, value)) (line 156).
Clamp(value) ==
  RMax(Zero, RMin(RInt(100), value))

\* Lines 144-156 for row k: the locals when risk[date] is assigned.
RowLocals(acc, value) ==
  [terms |-> acc.terms, sum |-> acc.value, value |-> value, risk |-> Clamp(value)]

AfterLoop(df, k, acc) == RowLocals(acc, AddBonus(df, k, acc.value))

ScoreRow(df, k) == AfterLoop(df, k, Accumulate(df, k, Len(codes["USA"])))

\* calculate_risk_advanced(df): the returned frame (the forward-filled copy
\* with its risk column, line 157) and the locals of every row (lines 144-156).
WithRisk(filled, rows) ==
  [df |-> SetColumn(filled, RiskCol, [k \in 1..Len(rows) |-> rows[k].risk]),
   rows |-> rows]

ScoreFrame(filled) ==
  WithRisk(filled, [k \in 1..Len(filled.index) |-> ScoreRow(filled, k)])

calculate_risk_advanced(df) == ScoreFrame(FFill(df))

(***************************************************************************)
(* The script as a state machine.                                          *)
(***************************************************************************)
VARIABLES
  pc,                  \* "select", "download", "display", "stopped", "done"
  selected_countries,  \* the multiselect's value (line 104)
  cursor,              \* position of the running loop in its sequence
  answers,             \* per downloaded country, what the source answered
  calls,               \* the codes passed to fred.get_series, in order
  warnings,            \* st.warning calls: <<name, code, country>>
  frames,              \* per downloaded country, df_country after line 134
  all_data,            \* <<country, frame>> items in insertion order
  scored,              \* per displayed country, calculate_risk_advanced's result
  llm_requests,        \* arguments of explain_risk_with_llm calls
  output               \* widgets rendered by the display loop

vars ==
  <<pc, selected_countries, cursor, answers, calls, warnings, frames,
    all_data, scored, llm_requests, output>>

Init ==
  /\ pc = "select"
  /\ selected_countries = <<>>
  /\ cursor = 0
  /\ answers = <<>>
  /\ calls = <<>>
  /\ warnings = <<>>
  /\ frames = <<>>
  /\ all_data = <<>>
  /\ scored = <<>>
  /\ llm_requests = <<>>
  /\ output = <<>>

\* The values st.multiselect can return: sub-lists of its options.
Selections == {<<>>, <<"USA">>}

\* Lines 104-110: the selection; st.stop() ends the run when it is empty.
SelectCountries ==
  /\ pc = "select"
  /\ \E sel \in Selections :
       /\ selected_countries' = sel
       /\ pc' = IF Len(sel) = 0 THEN "stopped" ELSE "download"
       /\ cursor' = IF Len(sel) = 0 THEN 0 ELSE 1
  /\ UNCHANGED <<answers, calls, warnings, frames, all_data, scored,
                 llm_requests, output>>

\* Lines 116-134, one iteration of the loop over selected_countries.
DownloadCountry ==
  /\ pc = "download"
  /\ cursor <= Len(selected_countries)
  /\ LET country == selected_countries[cursor] IN
     \E values \in ObsValueSets :
     \E served \in [ServedAt(country) -> FetchOutcomes(values)] :
     \E ans \in {SourceAnswers(country, served)} :
     \E got \in {Download(country, ans)} :
       LET data == IF got.stored
                     THEN Append(all_data, <<country, got.df>>)
                     ELSE all_data
           last == cursor = Len(selected_countries)
       IN  /\ answers' = Append(answers, <<country, ans>>)
           /\ calls' = calls \o got.calls
           /\ warnings' = warnings \o got.warnings
           /\ frames' = Append(frames, <<country, got.df>>)
           /\ all_data' = data
           /\ pc' = IF ~last THEN "download"
                    ELSE IF Len(data) = 0 THEN "done" ELSE "display"
           /\ cursor' = IF last THEN 1 ELSE cursor + 1
  /\ UNCHANGED <<selected_countries, scored, llm_requests, output>>

\* df.tail(n): the last n rows.
TailRows(df, n) ==
  LET from == IF Len(df.index) > n THEN Len(df.index) - n ELSE 0
      len == Len(df.index) - from
  IN  [index |-> [k \in 1..len |-> df.index[from + k]],
       columns |-> df.columns,
       data |-> [j \in 1..Len(df.columns) |->
                   [k \in 1..len |-> df.data[j][from + k]]]]

\* df.tail(1).to_dict(orient="records")[0]: <<column, cell>> of the last row.
LastRecord(df) ==
  [j \in 1..Len(df.columns) |-> <<df.columns[j], Last(df.data[j])>>]

\* Rows of the table shown (line 202).
TableRows == 10

\* Lines 190-202, one iteration of the loop over all_data.items().
DisplayCountry ==
  /\ pc = "display"
  /\ cursor <= Len(all_data)
  /\ LET country == all_data[cursor][1]
     IN \E res \in {calculate_risk_advanced(all_data[cursor][2])} :
     LET latest_risk == Last(Column(res.df, RiskCol))
         context_vars == LastRecord(res.df)
     IN  /\ scored' = Append(scored, [country |-> country, df |-> res.df,
                                      rows |-> res.rows])
         /\ llm_requests' = Append(llm_requests,
                              [risk_value |-> latest_risk,
                               context_vars |-> context_vars])
         /\ output' = output \o
              << [kind |-> "subheader", country |-> country, index |-> <<>>],
                 [kind |-> "line_chart", country |-> country,
                  index |-> res.df.index],
                 [kind |-> "markdown", country |-> country, index |-> <<>>],
                 [kind |-> "write", country |-> country, index |-> <<>>],
                 [kind |-> "dataframe", country |-> country,
                  index |-> TailRows(res.df, TableRows).index] >>
  /\ pc' = IF cursor = Len(all_data) THEN "done" ELSE "display"
  /\ cursor' = cursor + 1
  /\ UNCHANGED <<selected_countries, answers, calls, warnings, frames, all_data>>

Next ==
  \/ SelectCountries
  \/ DownloadCountry
  \/ DisplayCountry

Spec == Init /\ [][Next]_vars

(***************************************************************************)
(* Vocabulary of the properties.                                           *)
(***************************************************************************)
\* The frame and the row locals of the i-th scored country.
Frame(i) == scored[i].df
Rows(i) == scored[i].rows
RiskAt(i, k) == Column(Frame(i), RiskCol)[k]

\* The source's answers in the download of `country`.
AnswersOf(country) ==
  answers[CHOOSE i \in 1..Len(answers) : answers[i][1] = country][2]

\* Positions in codes[country] of the indicators whose fetch succeeded.
Succeeded(country, ans) == {n \in 1..Len(codes[country]) : ans[n].ok}

HalfSpreadWeight == <<35, 2>>

(***************************************************************************)
(* C1: every value stored in "Risk (%)" is a number r with 0 <= r <= 100.  *)
(***************************************************************************)
C1_RiskWithinBounds ==
  \A i \in 1..Len(scored) : \A k \in 1..Len(Frame(i).index) :
    /\ IsFinite(RiskAt(i, k))
    /\ RLeq(Zero, RiskAt(i, k))
    /\ RLeq(RiskAt(i, k), RInt(100))

\* A scored frame where a change is infinite (prior value zero) on a row whose
\* accumulated value is negative, and another row is inverted with a positive
\* risk.
C1_Witness ==
  \E i \in 1..Len(scored) :
    /\ \E k \in 1..Len(Rows(i)) :
         /\ RLess(Rows(i)[k].value, Zero)
         /\ RiskAt(i, k) = Zero
         /\ \E t \in Range(Rows(i)[k].terms) : t.pct[2] = 0
    /\ \E k \in 1..Len(Rows(i)) :
         /\ Inverted(Frame(i), k)
         /\ RLess(Zero, RiskAt(i, k))

(***************************************************************************)
(* C2: directionality of an isolated +10% day-over-day increase.           *)
(***************************************************************************)
\* The frame with the cell of column var at row k set to its value at k - 1.
FlatFrame(df, var, k) ==
  SetColumn(df, var, [Column(df, var) EXCEPT ![k] = Column(df, var)[k - 1]])

\* Indicator var rose by exactly 10% at row k of scored frame i and every
\* other column of the frame (derived ones included) has at k its value of
\* k - 1.
IsolatedRise(i, k, var) ==
  /\ k > 1
  /\ HasColumn(Frame(i), var)
  /\ \E t \in Range(Rows(i)[k].terms) : t.var = var /\ t.pct = <<1, 10>>
  /\ \A c \in Range(Frame(i).columns) \ {var, RiskCol} :
       Column(Frame(i), c)[k] = Column(Frame(i), c)[k - 1]

\* The score of the same row when var is unchanged too.
FlatRow(i, k, var) == ScoreRow(FlatFrame(Frame(i), var, k), k)

\* C2 as stated: the score is strictly higher than in the unchanged scenario
\* when risk_direction[var] is true and strictly lower when it is false.
C2_StrictDirectionality ==
  \A i \in 1..Len(scored) : \A k \in 1..Len(Rows(i)) :
    \A n \in 1..Len(codes["USA"]) :
      IsolatedRise(i, k, codes["USA"][n][1]) =>
        IF risk_direction[codes["USA"][n][1]]
          THEN RLess(FlatRow(i, k, codes["USA"][n][1]).risk, RiskAt(i, k))
          ELSE RLess(RiskAt(i, k), FlatRow(i, k, codes["USA"][n][1]).risk)

\* What holds of row k for an isolated rise of var.
DirectionalityAt(i, k, var) ==
  IF risk_direction[var]
    THEN /\ RSub(Rows(i)[k].value, FlatRow(i, k, var).value) = Rat(weights[var], 10)
         /\ RLess(FlatRow(i, k, var).risk, RiskAt(i, k))
    ELSE /\ RSub(FlatRow(i, k, var).value, Rows(i)[k].value) = Rat(weights[var], 10)
         /\ RLeq(RiskAt(i, k), FlatRow(i, k, var).risk)
         /\ RLess(RiskAt(i, k), FlatRow(i, k, var).risk)
              <=> RLess(Zero, FlatRow(i, k, var).risk)

\* C2 as amended: the accumulated value moves by 0.1 * weight in the direction
\* of the flag; the stored score is strictly higher for a true flag, and for a
\* false flag lower or equal: strictly lower exactly when the unchanged
\* scenario scores above 0, equal (both clamped to 0) otherwise.
C2_Directionality ==
  \A i \in 1..Len(scored) : \A k \in 1..Len(Rows(i)) :
    \A n \in 1..Len(codes["USA"]) :
      IsolatedRise(i, k, codes["USA"][n][1]) =>
        DirectionalityAt(i, k, codes["USA"][n][1])

\* An isolated rise of a false-flag indicator on an inverted row: the score
\* is strictly lower than with the indicator unchanged.
C2_Witness ==
  \E i \in 1..Len(scored) : \E k \in 1..Len(Rows(i)) :
    /\ IsolatedRise(i, k, "Real GDP")
    /\ Inverted(Frame(i), k)
    /\ RLess(Zero, RiskAt(i, k))
    /\ RLess(RiskAt(i, k), FlatRow(i, k, "Real GDP").risk)

(***************************************************************************)
(* C3: a prior value that is zero or missing gives a change of exactly 0,  *)
(* and the accumulated value is never NaN.                                 *)
(***************************************************************************)
C3_ZeroPriorIsZeroChange ==
  \A i \in 1..Len(scored) : \A k \in 1..Len(Rows(i)) :
    /\ IsFinite(Rows(i)[k].value)
    /\ \A t \in Range(Rows(i)[k].terms) :
         (k > 1 /\ Column(Frame(i), t.var)[k - 1] \in {Missing, Zero})
           => t.change = Zero

(***************************************************************************)
(* C4: the spread column is scored like a sourced indicator: its clipped,  *)
(* signed percent change times its weight is in the accumulated value, in  *)
(* addition to the inversion bonus.  Stated for the rows whose previous    *)
(* spread is a number other than zero, where the percent change is finite. *)
(***************************************************************************)
\* The cell of the spread column on the row before k.
SpreadBefore(i, k) == Column(Frame(i), YieldCurve)[k - 1]

\* The term a scored column var has at row k.
TermOf(df, var, k) == Term(var, PctChangeAt(df, var, k))

C4_SpreadScoredAsIndicator ==
  \A i \in 1..Len(scored) : \A k \in 2..Len(Rows(i)) :
    (/\ HasColumn(Frame(i), YieldCurve)
     /\ SpreadBefore(i, k) \notin {Missing, Zero}) =>
      Rows(i)[k].value =
        RAdd(RAdd(Rows(i)[k].sum,
                  RMul(TermOf(Frame(i), YieldCurve, k).change,
                       RInt(weights[YieldCurve]))),
             IF Inverted(Frame(i), k) THEN HalfSpreadWeight ELSE Zero)

(***************************************************************************)
(* C5: the accumulated value gets exactly 17.5 added iff the spread column *)
(* is present and strictly negative at the row; nothing otherwise.         *)
(***************************************************************************)
\* The cell of the spread column at row k, NaN when the column is absent.
SpreadAt(df, k) ==
  IF Contains(df.columns, YieldCurve)
    THEN df.data[PosOf(df.columns, YieldCurve)][k]
    ELSE Missing

C5_InversionBonus ==
  \A i \in 1..Len(scored) : \A k \in 1..Len(Rows(i)) :
    RSub(Rows(i)[k].value, Rows(i)[k].sum) =
      IF SpreadAt(Frame(i), k) # Missing /\ SpreadAt(Frame(i), k)[1] < 0
        THEN HalfSpreadWeight
        ELSE Zero

\* A scored frame with a row where the spread is zero (nothing added) and two
\* rows where it is negative by different amounts (17.5 added on both).
C5_Witness ==
  \E i \in 1..Len(scored) :
    /\ \E k \in 1..Len(Rows(i)) :
         /\ SpreadAt(Frame(i), k) = Zero
         /\ Rows(i)[k].value = Rows(i)[k].sum
    /\ \E k \in 1..Len(Rows(i)) : \E m \in 1..Len(Rows(i)) :
         /\ SpreadAt(Frame(i), k) # Missing
         /\ SpreadAt(Frame(i), m) # Missing
         /\ SpreadAt(Frame(i), k)[1] < 0
         /\ SpreadAt(Frame(i), m)[1] < 0
         /\ SpreadAt(Frame(i), k) # SpreadAt(Frame(i), m)
         /\ RSub(Rows(i)[k].value, Rows(i)[k].sum) = HalfSpreadWeight
         /\ RSub(Rows(i)[m].value, Rows(i)[m].sum) = HalfSpreadWeight

(***************************************************************************)
(* C6: the stored frame has one row per day from the earliest to the       *)
(* latest date of any fetched series, and holds every observation.         *)
(***************************************************************************)
\* The dates of all the series fetched for the country.
UnionDates(country, ans) ==
  UNION {SeriesDates(ans[n].serie) : n \in Succeeded(country, ans)}

CoversUnion(country, df, ans) ==
  /\ df.index = DayRange(SetMin(UnionDates(country, ans)),
                         SetMax(UnionDates(country, ans)))
  /\ \A n \in Succeeded(country, ans) : \A m \in 1..Len(ans[n].serie) :
       Column(df, codes[country][n][1])[PosOf(df.index, ans[n].serie[m][1])]
         = ans[n].serie[m][2]

C6_UnionDateRange ==
  \A j \in 1..Len(all_data) :
    CoversUnion(all_data[j][1], all_data[j][2], AnswersOf(all_data[j][1]))

(***************************************************************************)
(* C7: interpolation between known observations, and what the cells before *)
(* the first and after the last known observation hold.  The known         *)
(* observations of a column are those the frame retained: the observations *)
(* of its series dated on a date of the first fetched series that is not   *)
(* empty.                                                                  *)
(***************************************************************************)
\* The dates of the first fetched series of the country that is not empty.
RetainedDates(country, ans) ==
  SeriesDates(ans[SetMin({n \in Succeeded(country, ans) :
                            Len(ans[n].serie) > 0})].serie)

\* The observations of indicator n that the frame of the country retained.
Retained(country, ans, n) ==
  SelectSeq(ans[n].serie, LAMBDA o : o[1] \in RetainedDates(country, ans))

\* Rows of df at which the series has an observation.
Known(df, serie) == {k \in 1..Len(df.index) : df.index[k] \in SeriesDates(serie)}

ObservedAt(df, serie, k) == SeriesAt(serie, df.index[k])

\* The value at row k on the line through the observations at rows a and b.
OnLine(df, serie, a, b, k) ==
  IF a = b THEN ObservedAt(df, serie, a)
  ELSE RAdd(ObservedAt(df, serie, a),
            RMul(RSub(ObservedAt(df, serie, b), ObservedAt(df, serie, a)),
                 Rat(k - a, b - a)))

\* The cell C7 states for row k: missing outside the known observations.
NoExtrapolation(df, serie, k) ==
  IF {a \in Known(df, serie) : a <= k} = {} \/ {b \in Known(df, serie) : b >= k} = {}
    THEN Missing
    ELSE OnLine(df, serie, SetMax({a \in Known(df, serie) : a <= k}),
                SetMin({b \in Known(df, serie) : b >= k}), k)

\* The cell of the amended C7: the last known observation after it.
CarriedForward(df, serie, k) ==
  IF {a \in Known(df, serie) : a <= k} = {} THEN Missing
  ELSE IF {b \in Known(df, serie) : b >= k} = {}
    THEN ObservedAt(df, serie, SetMax(Known(df, serie)))
  ELSE OnLine(df, serie, SetMax({a \in Known(df, serie) : a <= k}),
              SetMin({b \in Known(df, serie) : b >= k}), k)

ColumnsAre(country, df, ans, Cell(_, _, _)) ==
  \A n \in Succeeded(country, ans) : \A k \in 1..Len(df.index) :
    Column(df, codes[country][n][1])[k] = Cell(df, Retained(country, ans, n), k)

\* C7 as stated, for the stored frames and their scoring copies.
C7_NoExtrapolation ==
  /\ \A j \in 1..Len(all_data) :
       ColumnsAre(all_data[j][1], all_data[j][2], AnswersOf(all_data[j][1]),
                  NoExtrapolation)
  /\ \A i \in 1..Len(scored) :
       ColumnsAre(scored[i].country, Frame(i), AnswersOf(scored[i].country),
                  NoExtrapolation)

\* C7 as amended: missing before the first known observation, interpolated
\* between two, and equal to the last known observation after it.
C7_CarriedForward ==
  /\ \A j \in 1..Len(all_data) :
       ColumnsAre(all_data[j][1], all_data[j][2], AnswersOf(all_data[j][1]),
                  CarriedForward)
  /\ \A i \in 1..Len(scored) :
       ColumnsAre(scored[i].country, Frame(i), AnswersOf(scored[i].country),
                  CarriedForward)

\* A scored frame with a column interpolated between two different
\* observations, a column whose only observation is on the last row (missing
\* before it) and one whose only observation is on the first row (carried
\* forward after it).
C7_Witness ==
  \E i \in 1..Len(scored) :
    /\ \E n \in Succeeded("USA", AnswersOf("USA")) :
         \E k \in 2..(Len(Frame(i).index) - 1) :
           /\ k \notin Known(Frame(i), Retained("USA", AnswersOf("USA"), n))
           /\ {1, Len(Frame(i).index)}
                \subseteq Known(Frame(i), Retained("USA", AnswersOf("USA"), n))
           /\ Column(Frame(i), codes["USA"][n][1])[k]
                # Column(Frame(i), codes["USA"][n][1])[k - 1]
    /\ \E n \in Succeeded("USA", AnswersOf("USA")) :
         /\ Known(Frame(i), Retained("USA", AnswersOf("USA"), n))
              = {Len(Frame(i).index)}
         /\ Column(Frame(i), codes["USA"][n][1])[1] = Missing
    /\ \E n \in Succeeded("USA", AnswersOf("USA")) :
         /\ Known(Frame(i), Retained("USA", AnswersOf("USA"), n)) = {1}
         /\ Last(Column(Frame(i), codes["USA"][n][1]))
              = Column(Frame(i), codes["USA"][n][1])[1]

(***************************************************************************)
(* C8: recovery from fetch failures.                                       *)
(***************************************************************************)
\* Positions of codes[country], ascending, that satisfy Keep.
PositionsWhere(country, Keep(_)) ==
  SelectSeq([n \in 1..Len(codes[country]) |-> n], Keep)

\* The warnings the failing fetches of a country must give, in order.
ExpectedWarnings(country, ans) ==
  LET failed == PositionsWhere(country, LAMBDA n : ~ans[n].ok)
  IN  [m \in 1..Len(failed) |->
         <<codes[country][failed[m]][1], codes[country][failed[m]][2], country>>]

\* The names of the indicators whose fetch succeeded, in order.
SucceededNames(country, ans) ==
  LET got == PositionsWhere(country, LAMBDA n : ans[n].ok)
  IN  [m \in 1..Len(got) |-> codes[country][got[m]][1]]

AllCodes(country) == [n \in 1..Len(codes[country]) |-> codes[country][n][2]]

\* Concatenation of F(1), ..., F(n).
RECURSIVE Concat(_, _)
Concat(F(_), n) == IF n = 0 THEN <<>> ELSE Concat(F, n - 1) \o F(n)

IsScored(country) == \E i \in 1..Len(scored) : scored[i].country = country

\* What C8 and its amended form share: every indicator is fetched, each
\* failure gives its warning, and the frame's indicator columns are exactly
\* those fetched successfully.
DownloadsRecovered ==
  /\ calls = Concat(LAMBDA i : AllCodes(answers[i][1]), Len(answers))
  /\ warnings = Concat(LAMBDA i : ExpectedWarnings(answers[i][1], answers[i][2]),
                       Len(answers))
  /\ \A i \in 1..Len(frames) :
       SelectSeq(frames[i][2].columns,
                 LAMBDA c : \E n \in 1..Len(codes[frames[i][1]]) :
                              codes[frames[i][1]][n][1] = c)
         = SucceededNames(answers[i][1], answers[i][2])

\* C8 as stated: a country is scored iff at least one of its fetches succeeded.
C8_ScoredIffSomeFetched ==
  /\ DownloadsRecovered
  /\ pc = "done" =>
       \A i \in 1..Len(answers) :
         IsScored(answers[i][1]) <=> Succeeded(answers[i][1], answers[i][2]) # {}

\* C8 as amended: a country is scored iff at least one of its fetches
\* succeeded with a series of at least one observation.
C8_ScoredIffSomeObserved ==
  /\ DownloadsRecovered
  /\ pc = "done" =>
       \A i \in 1..Len(answers) :
         IsScored(answers[i][1]) <=>
           \E n \in Succeeded(answers[i][1], answers[i][2]) :
             Len(answers[i][2][n].serie) > 0

\* A finished run where a served indicator failed before one that succeeded,
\* a later one succeeded too, and the country was scored.
C8_Witness ==
  /\ pc = "done"
  /\ \E i \in 1..Len(answers) :
       /\ ~answers[i][2][1].ok
       /\ answers[i][2][6].ok /\ Len(answers[i][2][6].serie) = 0
       /\ answers[i][2][7].ok /\ Len(answers[i][2][7].serie) > 0
       /\ IsScored(answers[i][1])
       /\ Len(warnings) = Len(codes[answers[i][1]]) - 2

(***************************************************************************)
(* C9: the program produces an event for exactly the dates whose score     *)
(* exceeds the previous date's score by more than 5 points.                *)
(***************************************************************************)
\* The dates for which the display loop produced an event for the country.
EventDates(country) ==
  {o.index : o \in {e \in Range(output) : e.kind = "event" /\ e.country = country}}

\* The dates of scored frame i whose risk is more than 5 above the day before.
JumpDates(i) ==
  {<<Frame(i).index[k]>> : k \in {m \in 2..Len(Frame(i).index) :
                                    RLess(RInt(5), RSub(RiskAt(i, m), RiskAt(i, m - 1)))}}

C9_EventsDetected ==
  pc = "done" =>
    \A i \in 1..Len(scored) : EventDates(scored[i].country) = JumpDates(i)

(***************************************************************************)
(* C10: the sign normalisation of the scorer.                              *)
(***************************************************************************)
\* C10 as stated: signed = raw when the flag is false, -raw when it is true.
C10_SignAsStated ==
  \A i \in 1..Len(scored) : \A k \in 1..Len(Rows(i)) :
    \A t \in Range(Rows(i)[k].terms) :
      t.signed = IF risk_direction[t.var] = FALSE THEN t.pct ELSE <<-t.pct[1], t.pct[2]>>

\* The percent change of a finite, non-zero previous cell.
RawChange(cur, prev) ==
  Rat((cur[1] * prev[2] - prev[1] * cur[2]) * prev[2], cur[2] * prev[2] * prev[1])

\* The sum of change * weight over the first n terms.
RECURSIVE WeightedSum(_, _)
WeightedSum(terms, n) ==
  IF n = 0 THEN Zero
  ELSE RAdd(WeightedSum(terms, n - 1),
            RMul(terms[n].change, RInt(weights[terms[n].var])))

\* C10 as amended: signed = -raw when the flag is false, raw when it is true;
\* it is then clipped to [-0.2, 0.2], multiplied by the weight and summed over
\* the indicators of codes["USA"] present in the frame.
C10_SignAsCoded ==
  \A i \in 1..Len(scored) : \A k \in 1..Len(Rows(i)) :
    /\ \A t \in Range(Rows(i)[k].terms) :
         /\ t.signed = IF risk_direction[t.var] = FALSE
                         THEN <<-t.pct[1], t.pct[2]>> ELSE t.pct
         /\ t.change = RMax(<<-1, 5>>, RMin(<<1, 5>>, t.signed))
         /\ (k > 1 /\ Column(Frame(i), t.var)[k - 1] \notin {Missing, Zero})
              => t.pct = RawChange(Column(Frame(i), t.var)[k],
                                   Column(Frame(i), t.var)[k - 1])
    /\ Rows(i)[k].sum = WeightedSum(Rows(i)[k].terms, Len(Rows(i)[k].terms))
    /\ [m \in 1..Len(Rows(i)[k].terms) |-> Rows(i)[k].terms[m].var]
         = SelectSeq(IndicatorNames("USA"),
                     LAMBDA c : Contains(Frame(i).columns, c))

\* A scored row with a non-zero change of a false-flag indicator and one of a
\* true-flag indicator, neither clipped.
C10_Witness ==
  \E i \in 1..Len(scored) : \E k \in 1..Len(Rows(i)) :
    /\ \E t \in Range(Rows(i)[k].terms) :
         ~risk_direction[t.var] /\ t.pct # Zero /\ t.change = RNeg(t.pct)
    /\ \E t \in Range(Rows(i)[k].terms) :
         risk_direction[t.var] /\ t.pct # Zero /\ t.change = t.pct

====
